---- MODULE Spec2Model ----
(***************************************************************************)
(* The contracts module (paint/contracts/src/lib.rs): the dispatchables,   *)
(* execute_wasm with its commit, gas usage report and replay of deferred   *)
(* actions, restore_to, on_free_balance_zero and the CheckBlockGasLimit    *)
(* signed extension (pre-dispatch and post-dispatch).                      *)
(*                                                                         *)
(* The execution context, the gas meter, the account db and the currency   *)
(* live in other files (exec.rs, gas.rs, account_db.rs, the balances       *)
(* module); what the module needs of them is modelled from their contract. *)
(***************************************************************************)
EXTENDS Integers, Sequences, FiniteSets, TLC

(* ------------------------------ bounds -------------------------------- *)

\* Largest gas_limit an extrinsic or a dispatched runtime call asks for.
MaxGas == 2
\* Deferred actions the top-level frames of one behaviour queue.
MaxDeferred == 2
\* call/instantiate extrinsics of one behaviour.
MaxGasExtrinsics == 2
\* update_schedule extrinsics of one behaviour.
MaxScheduleExtrinsics == 3
\* Largest schedule version proposed.
MaxVersion == 2
\* Blocks of one behaviour after the first one.
MaxBlocks == 1
\* Number of the first block of a behaviour.
FirstBlock == 3
\* Largest value of the Weight type (u32 in the source), scaled down: a
\* gas_limit above it does not convert.
WeightMaxValue == 4
\* Width in bits of AccountCounter (u64 in the source), scaled down.
CounterBits == 2
\* Calls of trie_id of one behaviour.
MaxTrieIdCalls == 5
\* restore_to and claim_surcharge calls of one behaviour.
MaxRestores == 1
MaxClaims == 1
MaxPlainExtrinsics == 2

(* --------------------------- program constants ------------------------ *)

StorageSizeOffset == 8
MaximumBlockWeight == 3
ExistentialDeposit == 1
SignedClaimHandicap == 2
TombstoneDeposit == 16
RentByteFee == 4
RentDepositOffset == 1000
SurchargeReward == 150

(* ------------------------------ values -------------------------------- *)

None == <<>>
Some(x) == <<x>>
IsSome(o) == o # <<>>
Unwrap(o) == o[1]

RECURSIVE SumSeq(_)
SumSeq(s) == IF s = <<>> THEN 0 ELSE Head(s) + SumSeq(Tail(s))

\* The signer, the donor contract, the evicted contract and an account that
\* was never funded.
Signer == "S"
Donor == "D"
Evicted == "E"
Stranger == "N"
Accounts == {Signer, Donor, Evicted, Stranger}

TrieIds == {"t1", "t2"}
Keys == {"k1", "k2"}
\* Storage values are byte vectors.
Values == {<<1>>, <<2, 2>>}
CodeHashes == {"h1", "h2"}

\* blake2_256 of a storage key: collision free, kept symbolic.
blake2_256(key) == <<"blake2_256", key>>
HashedKeys == {blake2_256(k) : k \in Keys}

\* T::Hashing::hash of a buffer: collision free, kept symbolic.
Hash(buf) == <<"hash", buf>>

\* runtime_io::storage::child_root: the root commits to the live pairs.
ChildRoot(trie) == {<<hk, Unwrap(trie[hk])>> : hk \in {h \in DOMAIN trie : IsSome(trie[h])}}

\* A tombstone of the storage root alone.
TombstoneOfRoot(storage_root, code_hash) == Hash(<<storage_root>>)

\* RawTombstoneContractInfo::new: hash(storage_root ++ code_hash).
TombstoneNew(storage_root, code_hash) == Hash(<<storage_root, code_hash>>)

EmptyTrie == [hk \in HashedKeys |-> None]

Alive(trie_id, storage_size, code_hash, rent_allowance, deduct_block, last_write) ==
    [tag |-> "Alive", trie_id |-> trie_id, storage_size |-> storage_size,
     code_hash |-> code_hash, rent_allowance |-> rent_allowance,
     deduct_block |-> deduct_block, last_write |-> last_write]

Tombstone(hash) == [tag |-> "Tombstone", hash |-> hash]

get_alive(c) == IF c.tag = "Alive" THEN Some(c) ELSE None
\* A getter that takes the code hash of a live contract for a tombstone.
get_hash(c) == Some(IF c.tag = "Tombstone" THEN c.hash ELSE c.code_hash)

get_tombstone(c) == IF c.tag = "Tombstone" THEN Some(c.hash) ELSE None

\* Option::and_then over the two getters.
AliveOf(info, who) == IF IsSome(info[who]) THEN get_alive(Unwrap(info[who])) ELSE None
TombstoneOf(info, who) == IF IsSome(info[who]) THEN get_tombstone(Unwrap(info[who])) ELSE None

(* ----------------------------- schedule ------------------------------- *)

\* Schedule: the version and one cost field stand for the whole table.
ScheduleDefault == [version |-> 0, call_base_cost |-> 135]
Schedules == {[version |-> v, call_base_cost |-> c] : v \in 0..MaxVersion, c \in {135, 136}}

(* --------------------------- weight to fee ---------------------------- *)

\* T::WeightToFee is a parameter of the runtime: two conversions.
Conversions == {"identity", "half"}
WeightToFee(conv, w) ==
    CASE conv = "identity" -> w
      [] conv = "half" -> w \div 2

(* --------------------------- persistent state ------------------------- *)
(* The operators below work on a record s of the storage the module       *)
(* reads and writes:                                                      *)
(*   bal        free balances (the currency)                              *)
(*   info       ContractInfoOf                                            *)
(*   child      child storage by trie id                                  *)
(*   gasPrice   GasPrice, None when absent                                *)
(*   report     GasUsageReport, None when absent                          *)
(*   schedule   CurrentSchedule                                           *)
(*   events     the events deposited in the block                         *)
(*   block      system block number                                       *)
(* and on three logs kept for the properties:                             *)
(*   runs       one entry per execute_wasm whose closure returned: its    *)
(*              result, the root context's overlay and deferred log, the  *)
(*              number of actions the frame had queued, and the meter     *)
(*   commitLog  one entry per DirectAccountDb.commit                      *)
(*   effects    one entry per deferred action replayed: the action, the   *)
(*              Result of its call, and the number of commits and the     *)
(*              GasUsageReport in storage when it was applied             *)
(* ---------------------------------------------------------------------- *)

(* ------------------------------ currency ------------------------------ *)

\* OnFreeBalanceZero::on_free_balance_zero.
OnFreeBalanceZero(s, who) ==
    LET alive == AliveOf(s.info, who)
        taken == [s EXCEPT !.info[who] = None]
    IN IF IsSome(alive)
       THEN [taken EXCEPT !.child[Unwrap(alive).trie_id] = EmptyTrie]
       ELSE taken

\* Currency::make_free_balance_be: a balance under the existential deposit
\* reaps the account.
MakeFreeBalanceBe(s, who, value) ==
    IF value < ExistentialDeposit
    THEN IF s.bal[who] = 0 THEN s
         ELSE OnFreeBalanceZero([s EXCEPT !.bal[who] = 0], who)
    ELSE [s EXCEPT !.bal[who] = value]

\* Currency::deposit_creating: nothing is created under the existential deposit.
DepositCreating(s, who, value) ==
    IF s.bal[who] + value < ExistentialDeposit
    THEN s
    ELSE [s EXCEPT !.bal[who] = @ + value]

\* Currency::withdraw with ExistenceRequirement::KeepAlive.
CanWithdrawKeepAlive(s, who, value) ==
    /\ s.bal[who] >= value
    /\ s.bal[who] - value >= ExistentialDeposit

(* ------------------------------ restore_to ---------------------------- *)

\* The filter_map of restore_to: each delta key present in the donor's trie
\* is killed and remembered with its value, in delta order.
RECURSIVE TakeKeys(_, _)
TakeKeys(trie, delta) ==
    IF delta = <<>>
    THEN [trie |-> trie, taken |-> <<>>]
    ELSE LET hk == blake2_256(Head(delta))
         IN IF IsSome(trie[hk])
            THEN LET rest == TakeKeys([trie EXCEPT ![hk] = None], Tail(delta))
                 IN [trie |-> rest.trie,
                     taken |-> <<<<Head(delta), Unwrap(trie[hk])>>>> \o rest.taken]
            ELSE TakeKeys(trie, Tail(delta))

\* A mismatch that puts nothing back.
PutBackNothing(trie, taken) == trie

\* The loop putting the taken pairs back on a tombstone mismatch.
RECURSIVE PutBack(_, _)
PutBack(trie, taken) ==
    IF taken = <<>>
    THEN trie
    ELSE PutBack([trie EXCEPT ![blake2_256(Head(taken)[1])] = Some(Head(taken)[2])],
                 Tail(taken))

\* The number of pairs taken, for their lengths.
TakenCount(taken) == Len(taken)

\* key_values_taken.iter().map(|(_, value)| value.len() as u32).sum().
TakenSize(taken) == SumSeq([i \in 1..Len(taken) |-> Len(taken[i][2])])

\* The errors of restore_to.
NotAliveOrigin == "Cannot restore from inexisting or tombstone contract"
WrittenOrigin == "Origin TrieId written in the current block"
NotTombstoneDest == "Cannot restore to inexisting or alive contract"
TombstoneMismatch == "Tombstones don't match"

\* A check that never finds the donor written.
NeverWritten(last_write, current_block) == FALSE

\* origin_contract.last_write == Some(current_block).
WrittenInCurrentBlock(last_write, current_block) == last_write = Some(current_block)

\* A restoration that always carries the donor's last_write forward.
LastWriteKept(delta, current_block, last_write) == last_write

\* let last_write = if !delta.is_empty() { Some(current_block) } else
\* { origin_contract.last_write }.
RestoredLastWrite(delta, current_block, last_write) ==
    IF delta # <<>> THEN Some(current_block) ELSE last_write

\* Module::restore_to: the state, the Result and, for the properties, the
\* pairs taken from the donor.
RestoreTo(s, origin, dest, code_hash, rent_allowance, delta) ==
    LET origin_alive == AliveOf(s.info, origin)
        dest_tombstone == TombstoneOf(s.info, dest)
    IN IF ~IsSome(origin_alive)
       THEN [st |-> s, ok |-> FALSE, err |-> NotAliveOrigin, taken |-> <<>>]
       ELSE IF WrittenInCurrentBlock(Unwrap(origin_alive).last_write, s.block)
       THEN [st |-> s, ok |-> FALSE, err |-> WrittenOrigin, taken |-> <<>>]
       ELSE IF ~IsSome(dest_tombstone)
       THEN [st |-> s, ok |-> FALSE, err |-> NotTombstoneDest, taken |-> <<>>]
       ELSE
         LET origin_contract == Unwrap(origin_alive)
             last_write == RestoredLastWrite(delta, s.block, origin_contract.last_write)
             kv == TakeKeys(s.child[origin_contract.trie_id], delta)
             tombstone == TombstoneNew(ChildRoot(kv.trie), code_hash)
         IN IF tombstone # Unwrap(dest_tombstone)
            THEN [st |-> [s EXCEPT !.child[origin_contract.trie_id] =
                                       PutBack(kv.trie, kv.taken)],
                  ok |-> FALSE, err |-> TombstoneMismatch, taken |-> kv.taken]
            ELSE
              LET moved == [s EXCEPT
                      !.child[origin_contract.trie_id] = kv.trie,
                      !.info[origin] = None,
                      !.info[dest] = Some(Alive(origin_contract.trie_id,
                          origin_contract.storage_size - TakenSize(kv.taken),
                          code_hash, rent_allowance, s.block, last_write))]
                  origin_free_balance == moved.bal[origin]
                  zeroed == MakeFreeBalanceBe(moved, origin, 0)
              IN [st |-> DepositCreating(zeroed, dest, origin_free_balance),
                  ok |-> TRUE, err |-> "", taken |-> kv.taken]

(* ---------------------------- update_schedule ------------------------- *)

\* A check that lets every origin through.
EnsureAnyOrigin(origin) == origin \in {"Root", "Signed", "None"}

\* ensure_root.
EnsureRoot(origin) == origin = "Root"

\* A version check that lets an equal version through.
ScheduleIsOlder(current, new) == current.version > new.version

\* The version check of update_schedule: TRUE when the update is refused.
ScheduleIsStale(current, new) == current.version >= new.version

\* An event carrying the version that is replaced.
ScheduleReplacedEvent(current, new) == <<"ScheduleUpdated", current.version>>

\* The event update_schedule deposits.
ScheduleUpdatedEvent(current, new) == <<"ScheduleUpdated", new.version>>

\* Module::update_schedule.
UpdateSchedule(s, origin, new) ==
    IF ~EnsureRoot(origin)
    THEN [st |-> s, ok |-> FALSE]
    ELSE IF ScheduleIsStale(s.schedule, new)
    THEN [st |-> s, ok |-> FALSE]
    ELSE [st |-> [s EXCEPT !.events = Append(@, ScheduleUpdatedEvent(s.schedule, new)),
                           !.schedule = new],
          ok |-> TRUE]

(* -------------------------------- put_code ---------------------------- *)

\* The code blobs handed to put_code: two that instrument and one that
\* does not.
Codes == {"w1", "w2", "bad"}

\* T::Hashing::hash(code).
CodeHashOf(code) == CASE code = "w1" -> "h1" [] code = "w2" -> "h2" [] OTHER -> "h3"

\* wasm::prepare::prepare_contract: whether the code validates and
\* instruments under the schedule.
PrepareContract(code, schedule) == code # "bad"

\* wasm::save_code: on success the pristine and the instrumented code are
\* stored under the code hash.
SaveCode(s, code, schedule) ==
    IF PrepareContract(code, schedule)
    THEN [st |-> [s EXCEPT !.codeStorage = @ \cup {CodeHashOf(code)}],
          result |-> Some(CodeHashOf(code))]
    ELSE [st |-> s, result |-> None]

\* A check that lets root through as well.
EnsureSignedOrRoot(origin) == origin \in {"Signed", "Root"}

\* ensure_signed.
EnsureSigned(origin) == origin = "Signed"

\* Module::put_code.
PutCode(s, origin, code) ==
    IF ~EnsureSigned(origin)
    THEN [st |-> s, ok |-> FALSE]
    ELSE LET result == SaveCode(s, code, s.schedule)
         IN [st |-> IF IsSome(result.result)
                    THEN [result.st EXCEPT
                             !.events = Append(@, <<"CodeStored", Unwrap(result.result)>>)]
                    ELSE result.st,
             ok |-> IsSome(result.result)]

(* ------------------- execution context, gas meter --------------------- *)

\* What a frame does is given by the executed code: the status it returns
\* (kind), the overlay it builds (cs: a transfer of cs.value from the caller
\* to the called contract and an optional write to the contract's storage),
\* the deferred actions it queues, and the gas it asks for (charge).

EmptyChangeSet == [value |-> 0, write |-> None]
ChangeSets == {EmptyChangeSet, [value |-> 1, write |-> Some(<<"k2", Some(<<1>>)>>)]}

\* GasMeter::with_limit followed by the frame's charges: a charge above what
\* is left empties the meter and is OutOfGas.
RunMeter(gas_limit, charge) ==
    IF charge <= gas_limit
    THEN [left |-> gas_limit - charge, spent |-> charge, oog |-> FALSE]
    ELSE [left |-> 0, spent |-> gas_limit, oog |-> TRUE]

\* The ExecResult of the closure: out of gas and a failed transfer are errors.
FuncResult(s, origin, frame, meter) ==
    IF meter.oog THEN "Err"
    ELSE IF frame.kind = "Success" /\ s.bal[origin] < frame.cs.value THEN "Err"
    ELSE frame.kind

\* ExecReturnValue::is_success on an Ok result.
IsSuccess(result) == result = "Success"

\* The root context's overlay after the frame: merged on success, dropped otherwise.
RootOverlay(result, cs) == IF IsSuccess(result) THEN cs ELSE EmptyChangeSet

\* A root context that keeps the log of a frame that failed.
RootDeferredKept(result, deferred) == deferred

\* The root context's deferred log after the frame: merged on success, dropped otherwise.
RootDeferred(result, deferred) == IF IsSuccess(result) THEN deferred ELSE <<>>

\* DirectAccountDb.commit of the overlay's change set.
Commit(s, origin, cs) ==
    LET debited == IF cs.value > 0
                   THEN MakeFreeBalanceBe(s, origin, s.bal[origin] - cs.value)
                   ELSE s
        credited == IF cs.value > 0
                    THEN MakeFreeBalanceBe(debited, Donor, debited.bal[Donor] + cs.value)
                    ELSE debited
        alive == AliveOf(credited.info, Donor)
    IN IF IsSome(cs.write) /\ IsSome(alive)
       THEN LET c == Unwrap(alive)
                hk == blake2_256(Unwrap(cs.write)[1])
                new == Unwrap(cs.write)[2]
                old == credited.child[c.trie_id][hk]
                size(o) == IF IsSome(o) THEN Len(Unwrap(o)) ELSE 0
            IN [credited EXCEPT
                   !.child[c.trie_id][hk] = new,
                   !.info[Donor] = Some([c EXCEPT
                       !.storage_size = c.storage_size + size(new) - size(old),
                       !.last_write = Some(credited.block)])]
       ELSE credited

(* ----------------------------- execute_wasm --------------------------- *)

RECURSIVE ExecuteWasm(_, _, _, _)
RECURSIVE Replay(_, _, _)

\* GasPrice::take: the stored price, or the declared default.
TakeGasPrice(s) == IF IsSome(s.gasPrice) THEN Unwrap(s.gasPrice) ELSE 1

\* GasUsageReport::take: the stored report, or the default pair.
TakeGasUsageReport(s) == IF IsSome(s.report) THEN Unwrap(s.report) ELSE <<0, 0>>

\* Dispatchable::dispatch of a runtime call under a signed origin.
DispatchSigned(s, who, call) ==
    CASE call.fn = "other" -> [st |-> s, ok |-> call.ok]
      [] call.fn = "update_schedule" -> UpdateSchedule(s, "Signed", call.schedule)
      [] call.fn = "call" ->
           LET r == ExecuteWasm(s, who, call.gas_limit, call.frame)
           IN [st |-> r.st, ok |-> r.result # "Err"]

\* An event that reports every dispatch as successful.
DispatchedAlways(who, ok) == <<"Dispatched", who, TRUE>>

\* RawEvent::Dispatched(who, result.is_ok()).
DispatchedEvent(who, ok) == <<"Dispatched", who, ok>>

\* One arm of the match over a deferred action.
ApplyDeferred(s, deferred, run) ==
    LET Logged(st, ok) ==
            [st EXCEPT !.effects = Append(@,
                [run |-> run, action |-> deferred, ok |-> ok,
                 commits |-> Len(s.commitLog), report |-> s.report])]
    IN CASE deferred.type = "DepositEvent" ->
              Logged([s EXCEPT !.events = Append(@, deferred.event)], TRUE)
         [] deferred.type = "DispatchRuntimeCall" ->
              LET r == DispatchSigned(s, deferred.origin, deferred.call)
              IN Logged([r.st EXCEPT
                            !.events = Append(@, DispatchedEvent(deferred.origin, r.ok))],
                        r.ok)
         [] deferred.type = "RestoreTo" ->
              LET r == RestoreTo(s, deferred.donor, deferred.dest, deferred.code_hash,
                                 deferred.rent_allowance, deferred.delta)
              IN Logged(r.st, r.ok)

\* A replay from the last queued action to the first.
RECURSIVE ReplayLastFirst(_, _, _)
ReplayLastFirst(s, deferred, run) ==
    IF deferred = <<>>
    THEN s
    ELSE ReplayLastFirst(ApplyDeferred(s, deferred[Len(deferred)], run),
                         SubSeq(deferred, 1, Len(deferred) - 1), run)

\* A replay that stops at the first action whose call returns an error.
RECURSIVE ReplayUntilError(_, _, _)
ReplayUntilError(s, deferred, run) ==
    IF deferred = <<>>
    THEN s
    ELSE LET applied == ApplyDeferred(s, Head(deferred), run)
         IN IF applied.effects[Len(applied.effects)].ok
            THEN ReplayUntilError(applied, Tail(deferred), run)
            ELSE applied

\* ctx.deferred.into_iter().for_each(...): first to last.
Replay(s, deferred, run) ==
    IF deferred = <<>>
    THEN s
    ELSE Replay(ApplyDeferred(s, Head(deferred), run), Tail(deferred), run)

\* A commit on every Ok result, reverted ones included.
CommitOnOk(result) == result # "Err"

\* The condition under which execute_wasm commits the overlay.
CommitCondition(result) == IsSuccess(result)

\* Module::execute_wasm. frame is what the closure (ctx.call or
\* ctx.instantiate) does.
ExecuteWasm(s, origin, gas_limit, frame) ==
    LET gas_price == TakeGasPrice(s)
        taken == [s EXCEPT !.gasPrice = None]
        meter == RunMeter(gas_limit, frame.charge)
        result == FuncResult(taken, origin, frame, meter)
        overlay == RootOverlay(result, frame.cs)
        deferred == RootDeferred(result, frame.deferred)
        run == Len(taken.runs) + 1
        returned == [taken EXCEPT !.runs = Append(@,
                        [origin |-> origin,
                         result |-> result, overlay |-> overlay, deferred |-> deferred,
                         queued |-> Len(frame.deferred),
                         gas_price |-> gas_price, gas_limit |-> gas_limit,
                         gas_left |-> meter.left])]
        committed == IF CommitCondition(result)
                     THEN [Commit(returned, origin, overlay) EXCEPT
                              !.commitLog = Append(@, [run |-> run, cs |-> overlay])]
                     ELSE returned
        reported == [committed EXCEPT !.report = Some(<<meter.left, meter.spent>>)]
    IN [st |-> Replay(reported, deferred, run), result |-> result]

(* ------------------------ CheckBlockGasLimit -------------------------- *)

\* fee.checked_div(gas_weight_limit).unwrap_or(1): None only on a zero divisor.
GasPriceFor(fee, gas_weight_limit) ==
    IF gas_weight_limit = 0 THEN 1 ELSE fee \div gas_weight_limit

\* gas_limit.try_into(): None when the gas does not fit the Weight type.
WeightTryFrom(gas_limit) == IF gas_limit <= WeightMaxValue THEN Some(gas_limit) ELSE None

\* A block that never fills.
WeightAvailableWhole(used) == MaximumBlockWeight

\* MaximumBlockWeight.saturating_sub(all_extrinsics_weight).
WeightAvailable(used) == IF MaximumBlockWeight >= used THEN MaximumBlockWeight - used ELSE 0

\* A fee of one unit more than the conversion gives.
FeeOfWeightPlusOne(conv, gas_weight_limit) == WeightToFee(conv, gas_weight_limit) + 1

\* let fee = T::WeightToFee::convert(gas_weight_limit).
FeeOfWeight(conv, gas_weight_limit) == WeightToFee(conv, gas_weight_limit)

\* Whether the call is one of those the extension meters.
IsGasCall(call) == call.fn \in {"call", "instantiate"}

\* Checks that put a GasPrice in storage for every extrinsic.
PricedForEveryCall(s, weight, conv, who, call) ==
    [st |-> [s EXCEPT !.gasPrice = Some(1)], res |-> "Ok", pre |-> None]

\* CheckBlockGasLimit::perform_pre_dispatch_checks. weight is
\* all_extrinsics_weight, conv the runtime's WeightToFee.
PerformPreDispatchChecks(s, weight, conv, who, call) ==
    IF ~IsGasCall(call)
    THEN [st |-> s, res |-> "Ok", pre |-> None]
    ELSE IF ~IsSome(WeightTryFrom(call.gas_limit))
    THEN [st |-> s, res |-> "ExhaustsResources", pre |-> None]
    ELSE
      LET gas_weight_limit == Unwrap(WeightTryFrom(call.gas_limit))
          weight_available == WeightAvailable(weight)
      IN IF gas_weight_limit > weight_available
         THEN [st |-> s, res |-> "ExhaustsResources", pre |-> None]
         ELSE
           LET fee == FeeOfWeight(conv, gas_weight_limit)
               priced == [s EXCEPT !.gasPrice = Some(GasPriceFor(fee, gas_weight_limit))]
           IN IF ~CanWithdrawKeepAlive(priced, who, fee)
              THEN [st |-> priced, res |-> "Payment", pre |-> None]
              ELSE [st |-> [priced EXCEPT !.bal[who] = @ - fee],
                    res |-> "Ok",
                    pre |-> Some([transactor |-> who, imbalance |-> fee])]

\* CheckBlockGasLimit::post_dispatch: the state, the refund and the weight registered.
PostDispatchOf(s, conv, pre) ==
    IF ~IsSome(pre)
    THEN [st |-> s, refund |-> 0, spent_weight |-> 0]
    ELSE
      LET gas_left == TakeGasUsageReport(s)[1]
          gas_spent == TakeGasUsageReport(s)[2]
          refund == WeightToFee(conv, gas_left)
          taken == [s EXCEPT !.report = None]
      IN [st |-> DepositCreating(taken, Unwrap(pre).transactor, refund),
          refund |-> refund,
          spent_weight |-> gas_spent]

(* ----------------------------- dispatchables -------------------------- *)

\* Module::call: ensure_signed, the lookup of dest, then bare_call.
Call(s, origin, who, dest_ok, gas_limit, frame) ==
    IF origin # "Signed" THEN [st |-> s, ok |-> FALSE]
    ELSE IF ~dest_ok THEN [st |-> s, ok |-> FALSE]
    ELSE LET r == ExecuteWasm(s, who, gas_limit, frame)
         IN [st |-> r.st, ok |-> r.result # "Err"]

\* Module::instantiate: ensure_signed, then execute_wasm over ctx.instantiate.
Instantiate(s, origin, who, gas_limit, frame) ==
    IF origin # "Signed" THEN [st |-> s, ok |-> FALSE]
    ELSE LET r == ExecuteWasm(s, who, gas_limit, frame)
         IN [st |-> r.st, ok |-> r.result # "Err"]

(* --------------------------- claim_surcharge -------------------------- *)

SaturatingSub(a, b) == IF a >= b THEN a - b ELSE 0

\* rent::try_evict: a contract whose rent for the blocks passed since
\* deduct_block, counted up to the block number less the handicap, exceeds
\* its balance less the tombstone deposit is evicted and leaves a tombstone
\* of its storage root and code hash. A contract that is not evicted is left
\* as it is.
TryEvict(s, account, handicap) ==
    LET alive == AliveOf(s.info, account)
    IN IF ~IsSome(alive)
       THEN [st |-> s, outcome |-> "Exempted"]
       ELSE
         LET contract == Unwrap(alive)
             effective_block_number == SaturatingSub(s.block, handicap)
             blocks_passed == SaturatingSub(effective_block_number, contract.deduct_block)
             balance == s.bal[account]
             effective_size == SaturatingSub(contract.storage_size,
                                             balance \div RentDepositOffset)
             dues == effective_size * RentByteFee * blocks_passed
         IN IF blocks_passed = 0
            THEN [st |-> s, outcome |-> "Exempted"]
            ELSE IF dues > SaturatingSub(balance, TombstoneDeposit)
            THEN [st |-> [s EXCEPT
                     !.info[account] = Some(Tombstone(TombstoneNew(
                         ChildRoot(s.child[contract.trie_id]), contract.code_hash))),
                     !.child[contract.trie_id] = EmptyTrie],
                  outcome |-> "Evicted"]
            ELSE [st |-> s, outcome |-> "Ok"]

\* Currency::deposit_into_existing: an error when the beneficiary has no
\* balance.
DepositIntoExisting(s, who, value) ==
    IF s.bal[who] = 0
    THEN [st |-> s, ok |-> FALSE]
    ELSE [st |-> [s EXCEPT !.bal[who] = @ + value], ok |-> TRUE]

\* A claim without a handicap for signed callers.
NoHandicap(signed) == 0

\* let handicap = if signed { SignedClaimHandicap } else { zero }.
ClaimHandicap(signed) == IF signed THEN SignedClaimHandicap ELSE 0

\* Module::claim_surcharge. who is the account of a signed origin. The
\* result carries, for the properties, the rent check that was made (None
\* when the claim was refused before it) and the rewarded account.
ClaimSurcharge(s, origin, who, aux_sender, dest) ==
    IF ~(\/ origin = "Signed" /\ aux_sender = None
         \/ origin = "None" /\ IsSome(aux_sender))
    THEN [st |-> s, ok |-> FALSE, rent |-> None, rewarded |-> None]
    ELSE
      LET signed == origin = "Signed"
          rewarded == IF signed THEN who ELSE Unwrap(aux_sender)
          handicap == ClaimHandicap(signed)
          r == TryEvict(s, dest, handicap)
          check == Some([handicap |-> handicap, outcome |-> r.outcome])
      IN IF r.outcome = "Evicted"
         THEN LET d == DepositIntoExisting(r.st, rewarded, SurchargeReward)
              IN [st |-> d.st, ok |-> d.ok, rent |-> check, rewarded |-> Some(rewarded)]
         ELSE [st |-> r.st, ok |-> TRUE, rent |-> check, rewarded |-> Some(rewarded)]

(* ------------------------------- trie_id ------------------------------ *)

RECURSIVE Pow2(_)
Pow2(n) == IF n = 0 THEN 1 ELSE 2 * Pow2(n - 1)

\* v.wrapping_add(1) on the counter's width.
WrappingAddOne(v) == (v + 1) % Pow2(CounterBits)

\* TrieIdFromParentCounter::trie_id: the counter after the call and the id,
\* the prefix followed by the hash of the account and the new counter.
trie_id(counter, account_id) ==
    LET new_seed == WrappingAddOne(counter)
    IN [counter |-> new_seed,
        id |-> <<":child_storage:", "default:", Hash(<<account_id, new_seed>>)>>]

\* The instantiation of a contract at an account that holds no
\* ContractInfo: the account gets an Alive entry with a trie id of the
\* generator and the endowment, and the constructor's write, if any, is
\* committed to the child trie.
PlaceContract(s, counter, account, code_hash, write, endowment) ==
    LET r == trie_id(counter, account)
        size == IF IsSome(write) THEN Len(Unwrap(write)[2]) ELSE 0
        placed == [s EXCEPT
            !.info[account] = Some(Alive(r.id, StorageSizeOffset + size, code_hash, 0,
                                         s.block, None)),
            !.child[r.id] = IF IsSome(write)
                            THEN [@ EXCEPT ![blake2_256(Unwrap(write)[1])] =
                                               Some(Unwrap(write)[2])]
                            ELSE @]
    IN [st |-> DepositCreating(placed, account, endowment), counter |-> r.counter,
        id |-> r.id]

(* ------------------------------- inputs ------------------------------- *)

ContractEvents == {<<"Contract", Donor, "e1">>, <<"Contract", Donor, "e2">>}
Deltas == {<<>>, <<"k1">>}
Charges == 0..(MaxGas + 1)

DepositEvents == {[type |-> "DepositEvent", event |-> e] : e \in ContractEvents}

RestoreTos == {[type |-> "RestoreTo", donor |-> Donor, dest |-> Evicted, code_hash |-> h,
                rent_allowance |-> 0, delta |-> d] : h \in CodeHashes, d \in Deltas}

DispatchOf(calls) == {[type |-> "DispatchRuntimeCall", origin |-> Donor, call |-> c] : c \in calls}

\* Runtime calls a contract queues that do not enter a contract again: a call
\* of another module, and update_schedule.
PlainCalls ==
    {[fn |-> "other", ok |-> TRUE],
     [fn |-> "update_schedule", schedule |-> [version |-> 1, call_base_cost |-> 136]]}

\* Frames of a contract entered from a dispatched runtime call.
InnerFrames ==
    {[kind |-> k, cs |-> EmptyChangeSet,
      deferred |-> <<[type |-> "DepositEvent", event |-> <<"Contract", Donor, "inner">>]>>,
      charge |-> c] :
        k \in {"Success", "Reverted"}, c \in {1}}

ContractCalls ==
    {[fn |-> "call", gas_limit |-> MaxGas, frame |-> f] : f \in InnerFrames}

DeferredActions == DepositEvents \cup RestoreTos \cup DispatchOf(PlainCalls \cup ContractCalls)

RECURSIVE SeqsUpTo(_, _)
SeqsUpTo(S, n) ==
    IF n = 0 THEN {<<>>}
    ELSE LET shorter == SeqsUpTo(S, n - 1)
         IN shorter \cup {Append(q, x) : q \in shorter, x \in S}

DeferredLogs == SeqsUpTo(DeferredActions, MaxDeferred)

\* Frames of a top-level call or instantiate. A frame that reverts or traps
\* loses its overlay and its log: one queued action is enough there.
Frames ==
    {[kind |-> "Success", cs |-> cs, deferred |-> d, charge |-> c] :
        cs \in ChangeSets, d \in DeferredLogs, c \in Charges}
    \cup
    {[kind |-> k, cs |-> cs, deferred |-> d, charge |-> c] :
        k \in {"Reverted", "Err"}, cs \in ChangeSets,
        d \in SeqsUpTo(DeferredActions, 1), c \in Charges}

Origins == {"Signed", "Root", "None"}

(* ------------------------------- state -------------------------------- *)

VARIABLES
    bal, info, child, gasPrice, report, schedule, events, block,
    codeStorage,    \* the code hashes PristineCode and CodeStorage hold
    runs, commitLog, effects,
    weight,         \* system all_extrinsics_weight
    conv,           \* the runtime's WeightToFee
    phase,          \* "idle", "rejected", "pre", "dispatched", "done"
    ext,            \* the extrinsic being applied
    pre,            \* what pre_dispatch returned for it
    preResult,      \* "Ok", "ExhaustsResources", "Payment"
    dispatchOk,     \* whether the dispatchable returned Ok
    refund,         \* what post_dispatch credited
    nGas,           \* call and instantiate extrinsics so far
    updates,        \* the update_schedule extrinsics dispatched so far
    nDeferred,      \* deferred actions queued so far by top-level frames
    nPlain,         \* extrinsics other than call and instantiate so far
    accountCounter, \* AccountCounter
    issued,         \* the trie ids trie_id returned, in order
    evicted,        \* per account, the storage and code hash it was evicted with
    outcome,        \* the last restore_to or claim_surcharge: inputs and result
    nRestores,      \* restore_to calls so far
    nClaims         \* claim_surcharge calls so far

storeVars == <<bal, info, child, gasPrice, report, schedule, events, block,
               codeStorage, runs, commitLog, effects>>
extVars == <<weight, conv, phase, ext, pre, preResult, dispatchOk, refund, nGas,
             updates, nDeferred, nPlain>>
callVars == <<accountCounter, issued, evicted, outcome, nRestores, nClaims>>
vars == <<bal, info, child, gasPrice, report, schedule, events, block,
          codeStorage, runs, commitLog, effects, weight, conv, phase, ext, pre,
          preResult, dispatchOk, refund, nGas, updates, nDeferred, nPlain,
          accountCounter, issued, evicted, outcome, nRestores, nClaims>>

\* The storage as the record the operators work on.
Store ==
    [bal |-> bal, info |-> info, child |-> child, gasPrice |-> gasPrice,
     report |-> report, schedule |-> schedule, events |-> events, block |-> block,
     codeStorage |-> codeStorage, runs |-> runs, commitLog |-> commitLog, effects |-> effects]

SetStore(s) ==
    /\ bal' = s.bal
    /\ info' = s.info
    /\ child' = s.child
    /\ gasPrice' = s.gasPrice
    /\ report' = s.report
    /\ schedule' = s.schedule
    /\ events' = s.events
    /\ block' = s.block
    /\ codeStorage' = s.codeStorage
    /\ runs' = s.runs
    /\ commitLog' = s.commitLog
    /\ effects' = s.effects

NoExt == [fn |-> "none"]
NoCall == [op |-> "none"]

\* The donor's storage in the first block, and the root the evicted
\* contract had when it was evicted.
DonorTrie == [EmptyTrie EXCEPT ![blake2_256("k1")] = Some(<<2, 2>>)]

\* Genesis values of decl_storage, and a chain on which a donor contract is
\* alive and another contract has been evicted with the same storage and code.
\* No extrinsic is being applied.
NoExtrinsic ==
    /\ phase = "idle"
    /\ ext = NoExt
    /\ pre = None
    /\ preResult = "Ok"
    /\ dispatchOk = FALSE
    /\ refund = 0
    /\ nGas = 0
    /\ updates = <<>>
    /\ nDeferred = 0
    /\ nPlain = 0

\* No restore_to, claim_surcharge or trie_id was called.
NoCalls ==
    /\ accountCounter = 0
    /\ issued = <<>>
    /\ outcome = NoCall
    /\ nRestores = 0
    /\ nClaims = 0

Init ==
    /\ bal = [a \in Accounts |-> CASE a = Signer -> 4 [] a = Donor -> 2 [] a = Evicted -> 1
                                    [] OTHER -> 0]
    /\ info = [a \in Accounts |->
                 CASE a = Donor -> Some(Alive("t1", StorageSizeOffset + 2, "h1", 0,
                                              FirstBlock - 1, Some(FirstBlock - 1)))
                   [] a = Evicted -> Some(Tombstone(TombstoneNew(ChildRoot(DonorTrie), "h1")))
                   [] OTHER -> None]
    /\ child = [t \in TrieIds |-> IF t = "t1" THEN DonorTrie ELSE EmptyTrie]
    /\ evicted = [a \in Accounts |->
                    IF a = Evicted THEN Some([trie |-> DonorTrie, code_hash |-> "h1"])
                    ELSE None]
    /\ NoCalls
    /\ gasPrice = None
    /\ report = None
    /\ schedule = ScheduleDefault
    /\ codeStorage = {}
    /\ events = <<>>
    /\ block = FirstBlock
    /\ runs = <<>>
    /\ commitLog = <<>>
    /\ effects = <<>>
    /\ weight = 0
    /\ conv \in Conversions
    /\ phase = "idle"
    /\ ext = NoExt
    /\ pre = None
    /\ preResult = "Ok"
    /\ dispatchOk = FALSE
    /\ refund = 0
    /\ nGas = 0
    /\ updates = <<>>
    /\ nDeferred = 0
    /\ nPlain = 0

Between == phase \in {"idle", "rejected", "done"}

\* SignedExtension::pre_dispatch of the next extrinsic of the block.
PreDispatch(call) ==
    /\ Between
    /\ LET r == PerformPreDispatchChecks(
                    [Store EXCEPT !.runs = <<>>, !.commitLog = <<>>, !.effects = <<>>],
                    weight, conv, Signer, call)
       IN /\ SetStore(r.st)
          /\ preResult' = r.res
          /\ pre' = r.pre
          /\ phase' = IF r.res = "Ok" THEN "pre" ELSE "rejected"
    /\ ext' = call
    /\ dispatchOk' = FALSE
    /\ refund' = 0
    /\ UNCHANGED <<weight, conv, nDeferred>>
    /\ UNCHANGED callVars

\* A behaviour holds call and instantiate extrinsics, or update_schedule
\* extrinsics.
PreDispatchGas ==
    /\ nGas < MaxGasExtrinsics
    /\ updates = <<>>
    /\ \E g \in 0..MaxGas :
          \/ \E ok \in BOOLEAN :
                PreDispatch([fn |-> "call", origin |-> "Signed", gas_limit |-> g,
                             dest_ok |-> ok])
          \/ PreDispatch([fn |-> "instantiate", origin |-> "Signed", gas_limit |-> g])
    /\ nGas' = nGas + 1
    /\ UNCHANGED <<updates, nPlain>>

PreDispatchSchedule ==
    /\ Len(updates) < MaxScheduleExtrinsics
    /\ nGas = 0
    /\ \E o \in Origins, new \in Schedules :
          PreDispatch([fn |-> "update_schedule", origin |-> o, schedule |-> new])
    /\ UNCHANGED <<nGas, updates, nPlain>>

Finish(r) ==
    /\ SetStore(r.st)
    /\ dispatchOk' = r.ok
    /\ phase' = "dispatched"
    /\ UNCHANGED <<weight, conv, ext, pre, preResult, refund, nGas, nPlain>>
    /\ UNCHANGED callVars

DispatchCall ==
    /\ phase = "pre"
    /\ ext.fn = "call"
    /\ \E f \in Frames :
          /\ nDeferred + Len(f.deferred) <= MaxDeferred
          /\ nDeferred' = nDeferred + Len(f.deferred)
          /\ Finish(Call(Store, ext.origin, Signer, ext.dest_ok, ext.gas_limit, f))
    /\ UNCHANGED updates

DispatchInstantiate ==
    /\ phase = "pre"
    /\ ext.fn = "instantiate"
    /\ \E f \in Frames :
          /\ nDeferred + Len(f.deferred) <= MaxDeferred
          /\ nDeferred' = nDeferred + Len(f.deferred)
          /\ Finish(Instantiate(Store, ext.origin, Signer, ext.gas_limit, f))
    /\ UNCHANGED updates

DispatchUpdateSchedule ==
    /\ phase = "pre"
    /\ ext.fn = "update_schedule"
    /\ LET r == UpdateSchedule(Store, ext.origin, ext.schedule)
       IN /\ Finish(r)
          /\ updates' = Append(updates, [origin |-> ext.origin,
                                         version |-> ext.schedule.version,
                                         ok |-> r.ok])
    /\ UNCHANGED nDeferred

\* SignedExtension::post_dispatch, then register_extra_weight_unchecked.
PostDispatch ==
    /\ phase = "dispatched"
    /\ LET r == PostDispatchOf(Store, conv, pre)
       IN /\ SetStore(r.st)
          /\ refund' = r.refund
          /\ weight' = weight + r.spent_weight
    /\ phase' = "done"
    /\ UNCHANGED <<conv, ext, pre, preResult, dispatchOk, nGas, updates, nDeferred,
                   nPlain>>
    /\ UNCHANGED callVars

\* The next block starts: the system module resets the block's weight and
\* events. The contracts module declares no on_initialize or on_finalize.
NextBlock ==
    /\ Between
    /\ block < FirstBlock + MaxBlocks
    /\ block' = block + 1
    /\ weight' = 0
    /\ events' = <<>>
    /\ phase' = "idle"
    /\ UNCHANGED <<bal, info, child, gasPrice, report, schedule, codeStorage, runs,
                   commitLog, effects, conv, ext, pre, preResult, dispatchOk, refund,
                   nGas, updates, nDeferred, nPlain>>
    /\ UNCHANGED callVars

Next ==
    \/ PreDispatchGas
    \/ PreDispatchSchedule
    \/ DispatchCall
    \/ DispatchInstantiate
    \/ DispatchUpdateSchedule
    \/ PostDispatch
    \/ NextBlock

Spec == Init /\ [][Next]_vars

(* ------------------- restore_to and claim_surcharge ------------------- *)
(* A chain with a donor contract and a second contract that has been      *)
(* evicted, or is about to be, on which restore_to and claim_surcharge     *)
(* are called with every input.                                            *)

TrieOf(pairs) == [hk \in HashedKeys |->
                    IF \E p \in pairs : blake2_256(p[1]) = hk
                    THEN Some((CHOOSE p \in pairs : blake2_256(p[1]) = hk)[2])
                    ELSE None]

\* The storage of the donor, and the storage the second contract holds or
\* held when it was evicted.
DonorTries == {TrieOf({}), TrieOf({<<"k1", <<2, 2>>>>}),
               TrieOf({<<"k1", <<2, 2>>>>, <<"k2", <<1>>>>})}
EvictedTries == {TrieOf({}), TrieOf({<<"k1", <<2, 2>>>>})}

\* storage_size of a contract holding the trie.
RECURSIVE SizeOfKeys(_, _)
SizeOfKeys(trie, hks) ==
    IF hks = {} THEN 0
    ELSE LET hk == CHOOSE h \in hks : TRUE
         IN (IF IsSome(trie[hk]) THEN Len(Unwrap(trie[hk])) ELSE 0)
            + SizeOfKeys(trie, hks \ {hk})
StorageSizeOf(trie) == StorageSizeOffset + SizeOfKeys(trie, HashedKeys)

\* The donor's balance and the block up to which it paid rent: a balance
\* that does not cover a block's rent, with rent due for three blocks or for
\* one, and a balance that covers the rent due.
DonorRents == {[balance |-> TombstoneDeposit + 4, deduct_block |-> FirstBlock - 3],
               [balance |-> TombstoneDeposit + 4, deduct_block |-> FirstBlock - 1],
               [balance |-> 2 * RentDepositOffset, deduct_block |-> FirstBlock - 3]}

InitRent ==
    /\ \E dtrie \in DonorTries, etrie \in EvictedTries, ecode \in CodeHashes,
          rent \in DonorRents,
          written \in {None, Some(FirstBlock - 1), Some(FirstBlock)},
          gone \in BOOLEAN :
          LET dbal == rent.balance
              deduct == rent.deduct_block
          IN
          /\ bal = [a \in Accounts |->
                       CASE a = Signer -> 4
                         [] a = Donor -> dbal
                         [] a = Evicted -> TombstoneDeposit + 1
                         [] OTHER -> 0]
          /\ info = [a \in Accounts |->
                       CASE a = Donor -> Some(Alive("t1", StorageSizeOf(dtrie), "h1", 0,
                                                    deduct, written))
                         [] a = Evicted ->
                              IF gone
                              THEN Some(Tombstone(TombstoneNew(ChildRoot(etrie), ecode)))
                              ELSE Some(Alive("t2", StorageSizeOf(etrie), ecode, 0,
                                              FirstBlock - 3, None))
                         [] OTHER -> None]
          /\ child = [tr \in TrieIds |->
                        IF tr = "t1" THEN dtrie
                        ELSE IF gone THEN EmptyTrie ELSE etrie]
          /\ evicted = [a \in Accounts |->
                          IF a = Evicted /\ gone
                          THEN Some([trie |-> etrie, code_hash |-> ecode])
                          ELSE None]
    /\ gasPrice = None
    /\ report = None
    /\ schedule = ScheduleDefault
    /\ codeStorage = {}
    /\ events = <<>>
    /\ block = FirstBlock
    /\ runs = <<>>
    /\ commitLog = <<>>
    /\ effects = <<>>
    /\ weight = 0
    /\ conv = "identity"
    /\ NoExtrinsic
    /\ NoCalls

\* The deltas of restore_to: present, absent and repeated keys.
RestoreDeltas == {<<>>, <<"k2">>, <<"k1", "k1">>, <<"k2", "k1">>}

\* The rent allowance asked for the restored contract; the contracts of the
\* chain have an allowance of 0.
RestoredAllowance == 5

\* The calls of restore_to: between the two contracts with every code hash
\* and delta, and with an account that is no contract, or the same contract,
\* in either place.
RestoreRequests ==
    {[origin |-> o, dest |-> d, code_hash |-> h, rent_allowance |-> RestoredAllowance,
      delta |-> delta] :
        o \in {Donor, Evicted}, d \in {Donor, Evicted}, h \in CodeHashes,
        delta \in RestoreDeltas}
    \cup
    {[origin |-> od[1], dest |-> od[2], code_hash |-> "h1",
      rent_allowance |-> RestoredAllowance, delta |-> <<"k2">>] :
        od \in {<<Signer, Evicted>>, <<Donor, Signer>>}}

RestoreToStep ==
    /\ nRestores < MaxRestores
    /\ \E q \in RestoreRequests :
          LET r == RestoreTo(Store, q.origin, q.dest, q.code_hash, q.rent_allowance,
                             q.delta)
          IN /\ SetStore(r.st)
             /\ outcome' = [op |-> "restore_to", origin |-> q.origin, dest |-> q.dest,
                            code_hash |-> q.code_hash,
                            rent_allowance |-> q.rent_allowance, delta |-> q.delta,
                            ok |-> r.ok, err |-> r.err, taken |-> r.taken]
    /\ nRestores' = nRestores + 1
    /\ UNCHANGED <<accountCounter, issued, evicted, nClaims>>
    /\ UNCHANGED extVars

\* The claim_surcharge dispatchable, signed by Signer, unsigned or by root.
ClaimSurchargeStep ==
    /\ nClaims < MaxClaims
    /\ \E origin \in Origins, aux_sender \in {None, Some(Signer), Some(Stranger)},
          dest \in {Donor, Evicted} :
          LET r == ClaimSurcharge(Store, origin, Signer, aux_sender, dest)
              was == AliveOf(info, dest)
          IN /\ SetStore(r.st)
             /\ outcome' = [op |-> "claim_surcharge", origin |-> origin,
                            aux_sender |-> aux_sender, dest |-> dest,
                            ok |-> r.ok, rent |-> r.rent, rewarded |-> r.rewarded]
             /\ evicted' = IF IsSome(r.rent) /\ Unwrap(r.rent).outcome = "Evicted"
                           THEN [evicted EXCEPT ![dest] =
                                   Some([trie |-> child[Unwrap(was).trie_id],
                                         code_hash |-> Unwrap(was).code_hash])]
                           ELSE evicted
    /\ nClaims' = nClaims + 1
    /\ UNCHANGED <<accountCounter, issued, nRestores>>
    /\ UNCHANGED extVars

NextRent ==
    \/ RestoreToStep
    \/ ClaimSurchargeStep

SpecRent == InitRent /\ [][NextRent]_vars

(* ------------------------- pre-dispatch checks ------------------------ *)
(* perform_pre_dispatch_checks on every block weight, balance of the      *)
(* signer and gas limit.                                                  *)

InitPre ==
    /\ \E sbal \in 0..(WeightMaxValue + 1) :
          bal = [a \in Accounts |-> IF a = Signer THEN sbal ELSE 0]
    /\ info = [a \in Accounts |-> None]
    /\ child = [tr \in TrieIds |-> EmptyTrie]
    /\ evicted = [a \in Accounts |-> None]
    /\ gasPrice = None
    /\ report = None
    /\ schedule = ScheduleDefault
    /\ codeStorage = {}
    /\ events = <<>>
    /\ block = FirstBlock
    /\ runs = <<>>
    /\ commitLog = <<>>
    /\ effects = <<>>
    \* post_dispatch registers the gas spent unchecked: the weight of the
    \* block can pass the maximum.
    /\ weight \in 0..(MaximumBlockWeight + 1)
    /\ conv \in Conversions
    /\ NoExtrinsic
    /\ NoCalls

\* The extrinsics handed to the extension: call and instantiate with every
\* gas limit up to one that does not fit the weight type, and one extrinsic
\* that carries no gas.
PreCalls ==
    {[fn |-> f, origin |-> "Signed", gas_limit |-> g, dest_ok |-> TRUE] :
        f \in {"call", "instantiate"}, g \in 0..(WeightMaxValue + 1)}
    \cup {[fn |-> "update_schedule", origin |-> "Root", schedule |-> ScheduleDefault]}

PreCheck ==
    /\ \E call \in PreCalls : PreDispatch(call)
    /\ UNCHANGED <<nGas, updates, nPlain>>

NextPre ==
    \/ PreCheck
    \/ NextBlock

SpecPre == InitPre /\ [][NextPre]_vars

(* ------------------ extrinsics that carry no gas limit ---------------- *)
(* put_code, claim_surcharge, update_schedule and calls of other modules  *)
(* pass through the signed extension, among calls the signer cannot pay.  *)

InitPlain ==
    /\ bal = [a \in Accounts |-> CASE a = Signer -> 1 [] a = Donor -> 2 [] a = Evicted -> 1
                                    [] OTHER -> 0]
    /\ info = [a \in Accounts |->
                 CASE a = Donor -> Some(Alive("t1", StorageSizeOffset + 2, "h1", 0,
                                              FirstBlock - 1, Some(FirstBlock - 1)))
                   [] a = Evicted -> Some(Tombstone(TombstoneNew(ChildRoot(DonorTrie), "h1")))
                   [] OTHER -> None]
    /\ child = [t \in TrieIds |-> IF t = "t1" THEN DonorTrie ELSE EmptyTrie]
    /\ evicted = [a \in Accounts |->
                    IF a = Evicted THEN Some([trie |-> DonorTrie, code_hash |-> "h1"])
                    ELSE None]
    /\ gasPrice = None
    /\ report = None
    /\ schedule = ScheduleDefault
    /\ codeStorage = {}
    /\ events = <<>>
    /\ block = FirstBlock
    /\ runs = <<>>
    /\ commitLog = <<>>
    /\ effects = <<>>
    /\ weight = 0
    /\ conv \in Conversions
    /\ NoExtrinsic
    /\ NoCalls

PlainExtrinsics ==
    {[fn |-> "put_code", origin |-> o, code |-> c] : o \in Origins, c \in Codes}
    \cup {[fn |-> "update_schedule", origin |-> o,
           schedule |-> [version |-> 1, call_base_cost |-> 136]] : o \in {"Root", "Signed"}}
    \cup {[fn |-> "claim_surcharge", origin |-> o, aux_sender |-> a, dest |-> Donor] :
            o \in {"Signed", "None"}, a \in {None, Some(Stranger)}}
    \cup {[fn |-> "other", origin |-> "Signed", ok |-> ok] : ok \in BOOLEAN}

PreDispatchPlain ==
    /\ nPlain < MaxPlainExtrinsics
    /\ \E call \in PlainExtrinsics : PreDispatch(call)
    /\ nPlain' = nPlain + 1
    /\ UNCHANGED <<nGas, updates>>

\* A call whose fee the signer cannot pay: pre_dispatch rejects it.
PreDispatchUnpaid ==
    /\ nGas < MaxGasExtrinsics
    /\ \E g \in 1..MaxGas :
          PreDispatch([fn |-> "call", origin |-> "Signed", gas_limit |-> g,
                       dest_ok |-> TRUE])
    /\ preResult' = "Payment"
    /\ nGas' = nGas + 1
    /\ UNCHANGED <<updates, nPlain>>

DispatchPutCode ==
    /\ phase = "pre"
    /\ ext.fn = "put_code"
    /\ Finish(PutCode(Store, ext.origin, ext.code))
    /\ UNCHANGED <<updates, nDeferred>>

DispatchClaimSurcharge ==
    /\ phase = "pre"
    /\ ext.fn = "claim_surcharge"
    /\ LET r == ClaimSurcharge(Store, ext.origin, Signer, ext.aux_sender, ext.dest)
       IN Finish([st |-> r.st, ok |-> r.ok])
    /\ UNCHANGED <<updates, nDeferred>>

\* The call of another module: it leaves the storage of this one alone.
DispatchOther ==
    /\ phase = "pre"
    /\ ext.fn = "other"
    /\ Finish([st |-> Store, ok |-> ext.ok])
    /\ UNCHANGED <<updates, nDeferred>>

NextPlain ==
    \/ PreDispatchPlain
    \/ PreDispatchUnpaid
    \/ DispatchPutCode
    \/ DispatchClaimSurcharge
    \/ DispatchUpdateSchedule
    \/ DispatchOther
    \/ PostDispatch

SpecPlain == InitPlain /\ [][NextPlain]_vars

(* --------------------------- alive contracts -------------------------- *)
(* Contracts are instantiated, restored into a tombstone and removed when *)
(* their balance reaches zero, in any order.                              *)

\* Every trie id the generator can return.
AllocIds == {trie_id(c, a).id : c \in 0..(Pow2(CounterBits) - 1), a \in Accounts}

InitAlive ==
    /\ bal = [a \in Accounts |-> IF a = Evicted THEN 1 ELSE 0]
    /\ info = [a \in Accounts |->
                 IF a = Evicted
                 THEN Some(Tombstone(TombstoneNew(ChildRoot(DonorTrie), "h1")))
                 ELSE None]
    /\ child = [tr \in AllocIds |-> EmptyTrie]
    /\ evicted = [a \in Accounts |->
                    IF a = Evicted THEN Some([trie |-> DonorTrie, code_hash |-> "h1"])
                    ELSE None]
    /\ gasPrice = None
    /\ report = None
    /\ schedule = ScheduleDefault
    /\ codeStorage = {"h1"}
    /\ events = <<>>
    /\ block = FirstBlock
    /\ runs = <<>>
    /\ commitLog = <<>>
    /\ effects = <<>>
    /\ weight = 0
    /\ conv = "identity"
    /\ NoExtrinsic
    /\ NoCalls

\* The accounts contracts are instantiated at.
Instantiators == {Donor, Signer}

\* What a constructor writes.
ConstructorWrites == {None, Some(<<"k1", <<2, 2>>>>)}

InstantiateStep ==
    /\ Len(issued) < MaxTrieIdCalls
    /\ \E account \in Instantiators, write \in ConstructorWrites :
          /\ info[account] = None
          /\ LET r == PlaceContract(Store, accountCounter, account, "h1", write, 2)
             IN /\ SetStore(r.st)
                /\ accountCounter' = r.counter
                /\ issued' = Append(issued, [account |-> account, id |-> r.id])
                /\ outcome' = [op |-> "instantiate", who |-> account]
    /\ UNCHANGED <<evicted, nRestores, nClaims>>
    /\ UNCHANGED extVars

\* restore_to between any two accounts.
RestoreAliveStep ==
    /\ nRestores < MaxRestores
    /\ \E origin \in Accounts, dest \in Accounts :
          LET r == RestoreTo(Store, origin, dest, "h1", 0, <<>>)
          IN /\ SetStore(r.st)
             /\ outcome' = [op |-> "restore_to", who |-> origin, dest |-> dest,
                            ok |-> r.ok]
    /\ nRestores' = nRestores + 1
    /\ UNCHANGED <<accountCounter, issued, evicted, nClaims>>
    /\ UNCHANGED extVars

\* The free balance of an account reaches zero: the currency module calls
\* on_free_balance_zero.
ZeroBalanceStep ==
    /\ \E who \in Accounts :
          /\ bal[who] > 0
          /\ SetStore(MakeFreeBalanceBe(Store, who, 0))
          /\ outcome' = [op |-> "on_free_balance_zero", who |-> who]
    /\ UNCHANGED <<accountCounter, issued, evicted, nRestores, nClaims>>
    /\ UNCHANGED extVars

NextAlive ==
    \/ InstantiateStep
    \/ RestoreAliveStep
    \/ ZeroBalanceStep

SpecAlive == InitAlive /\ [][NextAlive]_vars

(* ------------------------------- trie ids ----------------------------- *)

InitTrieId ==
    /\ bal = [a \in Accounts |-> 0]
    /\ info = [a \in Accounts |-> None]
    /\ child = [tr \in TrieIds |-> EmptyTrie]
    /\ evicted = [a \in Accounts |-> None]
    /\ gasPrice = None
    /\ report = None
    /\ schedule = ScheduleDefault
    /\ codeStorage = {}
    /\ events = <<>>
    /\ block = FirstBlock
    /\ runs = <<>>
    /\ commitLog = <<>>
    /\ effects = <<>>
    /\ weight = 0
    /\ conv = "identity"
    /\ NoExtrinsic
    /\ NoCalls

\* A contract is instantiated at the account and gets its trie id.
TrieIdStep ==
    /\ Len(issued) < MaxTrieIdCalls
    /\ \E account_id \in Accounts :
          LET r == trie_id(accountCounter, account_id)
          IN /\ accountCounter' = r.counter
             /\ issued' = Append(issued, [account |-> account_id, id |-> r.id])
    /\ UNCHANGED <<evicted, outcome, nRestores, nClaims>>
    /\ UNCHANGED storeVars
    /\ UNCHANGED extVars

NextTrieId == TrieIdStep

SpecTrieId == InitTrieId /\ [][NextTrieId]_vars

(* ------------------------------ properties ---------------------------- *)

Dispatched == phase \in {"dispatched", "done"}
\* The entry of the extrinsic's own execute_wasm, when it ran.
Ran == Dispatched /\ runs # <<>>
\* A step that dispatches the extrinsic.
DispatchStep == phase = "pre" /\ phase' = "dispatched"

CommitsOf(i) == {j \in 1..Len(commitLog) : commitLog[j].run = i}

\* The deferred actions replayed for the i-th execute_wasm, in the order
\* in which they were applied.
EffectsOf(i) ==
    LET OfRun(e) == e.run = i
        mine == SelectSeq(effects, OfRun)
    IN [k \in 1..Len(mine) |-> mine[k].action]

C2_NoDeferredOnFailure ==
    [][(DispatchStep /\ runs' # <<>>) =>
          /\ \A k \in 1..Len(effects') : runs'[effects'[k].run].result = "Success"
          /\ runs'[1].result # "Success" =>
                /\ effects' = <<>>
                /\ events' = events
                /\ schedule' = schedule]_vars

C2_Witness ==
    /\ phase = "dispatched"
    /\ runs # <<>>
    /\ runs[1].result = "Reverted"
    /\ runs[1].queued > 0
    /\ effects = <<>>

\* C3: the deferred actions of an execute_wasm are applied in the order in
\* which they were appended, whatever their kinds.
C3_ReplayInAppendOrder ==
    \A i \in 1..Len(runs) : EffectsOf(i) = runs[i].deferred

C3_Witness ==
    /\ phase = "dispatched"
    /\ runs # <<>>
    /\ Len(runs[1].deferred) = 2
    /\ runs[1].deferred[1].type = "RestoreTo"
    /\ runs[1].deferred[2].type = "DepositEvent"
    /\ Len(effects) = 2

\* The gas the extrinsic's own execution spent and left.
OwnGasLeft == IF runs = <<>> THEN ext.gas_limit ELSE runs[1].gas_left
OwnGasSpent == ext.gas_limit - OwnGasLeft

\* C4: what pre-dispatch withdrew minus what post-dispatch refunded is the
\* fee of the gas the extrinsic spent. Stated for the identity conversion,
\* where no rounding takes part.
C4_GasConservation ==
    (phase = "done" /\ IsSome(pre) /\ conv = "identity") =>
        Unwrap(pre).imbalance - refund = WeightToFee(conv, OwnGasSpent)

\* C5: post-dispatch credits the signer with the fee of the gas that the
\* extrinsic's own execution left unspent, whatever the dispatch did.
C5_RefundOfOwnGasLeft ==
    (phase = "done" /\ IsSome(pre)) => refund = WeightToFee(conv, OwnGasLeft)

\* C6: after pre-dispatch, dispatch and post-dispatch of an extrinsic neither
\* GasPrice nor GasUsageReport is in storage.
C6_TransientsCleared ==
    phase = "done" => (gasPrice = None /\ report = None)

\* C7: the gas price pre-dispatch stores, and the one execute_wasm takes, is
\* at least 1.
C7_GasPriceAtLeastOne ==
    /\ IsSome(gasPrice) => Unwrap(gasPrice) >= 1
    /\ \A i \in 1..Len(runs) : runs[i].gas_price >= 1

UpdateStep == DispatchStep /\ ext.fn = "update_schedule"

\* C8: an update_schedule is accepted only with a version strictly greater
\* than the stored one, a refused one leaves the stored schedule unchanged,
\* and no step lowers the stored version or changes the schedule without
\* raising it.
C8_VersionStrictlyIncreases ==
    [][/\ schedule'.version >= schedule.version
       /\ schedule' # schedule => schedule'.version > schedule.version
       /\ UpdateStep =>
             /\ dispatchOk' => (ext.schedule.version > schedule.version
                                /\ schedule' = ext.schedule)
             /\ ~dispatchOk' => schedule' = schedule]_vars

C8_Witness ==
    /\ phase = "dispatched"
    /\ Len(updates) = 3
    /\ updates[1].ok /\ updates[1].version = 1
    /\ updates[2].ok /\ updates[2].version = 2
    /\ updates[3].origin = "Root" /\ updates[3].version = 2 /\ ~updates[3].ok
    /\ schedule.version = 2

\* The ScheduleUpdated events the accepted updates of the log call for.
RECURSIVE AcceptedEvents(_)
AcceptedEvents(log) ==
    IF log = <<>> THEN <<>>
    ELSE IF Head(log).ok
    THEN <<<<"ScheduleUpdated", Head(log).version>>>> \o AcceptedEvents(Tail(log))
    ELSE AcceptedEvents(Tail(log))

\* C9: within a block the event log holds one ScheduleUpdated event per
\* accepted update_schedule, with the accepted version, and none for a
\* refused one; from the default schedule the updates 0, 1, 1 by root are
\* refused, accepted, refused and leave the single event ScheduleUpdated(1).
C9_OneEventPerAcceptedUpdate ==
    /\ (block = FirstBlock /\ nGas = 0) => events = AcceptedEvents(updates)
    /\ (/\ Len(updates) = 3
        /\ \A k \in 1..3 : updates[k].origin = "Root"
        /\ updates[1].version = 0 /\ updates[2].version = 1 /\ updates[3].version = 1)
       => /\ ~updates[1].ok /\ updates[2].ok /\ ~updates[3].ok
          /\ block = FirstBlock => events = <<<<"ScheduleUpdated", 1>>>>

C9_Witness ==
    /\ phase = "done"
    /\ block = FirstBlock
    /\ Len(updates) = 3
    /\ \A k \in 1..3 : updates[k].origin = "Root"
    /\ updates[1].version = 0 /\ updates[2].version = 1 /\ updates[3].version = 1
    /\ events = <<<<"ScheduleUpdated", 1>>>>

\* C10: update_schedule under an origin other than root returns an error,
\* leaves the stored schedule unchanged and deposits no event.
C10_UpdateScheduleRootOnly ==
    [][(UpdateStep /\ ext.origin # "Root") =>
          /\ ~dispatchOk'
          /\ schedule' = schedule
          /\ events' = events]_vars

C10_Witness ==
    /\ phase = "dispatched"
    /\ ext.fn = "update_schedule"
    /\ ext.origin = "Signed"
    /\ ext.schedule.version > schedule.version
    /\ ~dispatchOk

(* --------------------------- alive contracts -------------------------- *)

\* The trie id of an alive contract.
TrieIdOf(inf, who) == Unwrap(inf[who]).trie_id

IsAlive(inf, who) == IsSome(inf[who]) /\ Unwrap(inf[who]).tag = "Alive"

\* C21: no two accounts with an Alive ContractInfo share a trie id, and
\* the trie id of every Alive contract is not empty.
C21_AliveTrieIdsUnique ==
    /\ \A a, b \in Accounts :
          (a # b /\ IsAlive(info, a) /\ IsAlive(info, b)) =>
              TrieIdOf(info, a) # TrieIdOf(info, b)
    /\ \A a \in Accounts : IsAlive(info, a) => TrieIdOf(info, a) # <<>>

\* The child storage an account holds as a contract.
StorageOfAccount(inf, ch, who) ==
    IF IsAlive(inf, who) THEN Some(ch[TrieIdOf(inf, who)]) ELSE None

ZeroStep == outcome'.op = "on_free_balance_zero" /\ bal' # bal

\* C23: when the free balance of an account reaches zero its ContractInfo
\* is removed, Alive or Tombstone; the child trie of an Alive one is
\* emptied; and the ContractInfo and the storage of every other account
\* are as before.
C23_ZeroBalanceRemovesContract ==
    [][ZeroStep =>
          LET who == outcome'.who
          IN /\ info'[who] = None
             /\ IsAlive(info, who) => child'[TrieIdOf(info, who)] = EmptyTrie
             /\ \A other \in Accounts \ {who} :
                   /\ info'[other] = info[other]
                   /\ StorageOfAccount(info', child', other)
                        = StorageOfAccount(info, child, other)]_vars

(* -------------------------------- put_code ---------------------------- *)

PutCodeStep == phase = "pre" /\ ext.fn = "put_code" /\ phase' = "dispatched"

\* C24: put_code returns Ok exactly when its origin is signed and the code
\* instruments; it then stores the code and appends CodeStored(code_hash)
\* to the events, and otherwise returns the error and leaves the events
\* and the code storage as they were.
C24_CodeStoredIffOk ==
    [][PutCodeStep =>
          /\ dispatchOk' = (ext.origin = "Signed" /\ ext.code # "bad")
          /\ dispatchOk' =>
                /\ events' = Append(events, <<"CodeStored", CodeHashOf(ext.code)>>)
                /\ codeStorage' = codeStorage \cup {CodeHashOf(ext.code)}
          /\ ~dispatchOk' =>
                /\ events' = events
                /\ codeStorage' = codeStorage]_vars

\* Code was stored by one put_code and refused by another.
C24_Witness ==
    /\ phase = "dispatched"
    /\ ext.fn = "put_code"
    /\ ext.origin = "Signed"
    /\ ext.code = "bad"
    /\ ~dispatchOk
    /\ events = <<<<"CodeStored", "h2">>>>
    /\ codeStorage = {"h2"}

(* ------------------ extrinsics that carry no gas limit ---------------- *)

CarriesNoGas(call) == call.fn \in {"claim_surcharge", "update_schedule", "put_code", "other"}

\* C30: for claim_surcharge, update_schedule, put_code and the calls of
\* other modules pre-dispatch accepts the extrinsic with no fee withdrawn
\* and no GasPrice stored, and post-dispatch refunds nothing, registers no
\* weight and leaves GasUsageReport as it is.
C30_NoGasNoFee ==
    [][/\ (Between /\ phase' \in {"pre", "rejected"} /\ CarriesNoGas(ext')) =>
             /\ preResult' = "Ok"
             /\ pre' = None
             /\ bal' = bal
             /\ gasPrice' = gasPrice
             /\ report' = report
             /\ weight' = weight
       /\ (phase = "dispatched" /\ phase' = "done" /\ CarriesNoGas(ext)) =>
             /\ refund' = 0
             /\ bal' = bal
             /\ weight' = weight
             /\ report' = report
             /\ gasPrice' = gasPrice]_vars

\* A put_code went through the extension while the GasPrice of a rejected
\* call was in storage.
C30_Witness ==
    /\ phase = "done"
    /\ ext.fn = "put_code"
    /\ dispatchOk
    /\ IsSome(gasPrice)
    /\ refund = 0
    /\ weight = 0
    /\ bal[Signer] = 1

(* ------------------------- replay of deferred actions ----------------- *)

\* The actions replayed for the i-th execute_wasm of a log of effects.
ActionsOf(log, i) ==
    LET OfRun(e) == e.run = i
        mine == SelectSeq(log, OfRun)
    IN [k \in 1..Len(mine) |-> mine[k].action]

\* C22: when a restore_to replayed from the deferred log fails, the result
\* of the top-level call is the one of its root frame, the overlay of the
\* execute_wasm that queued it is committed, and every action of its log,
\* those queued after the restoration included, is replayed.
C22_FailedRestoreIsBestEffort ==
    (phase = "dispatched" /\ runs # <<>>) =>
        \A k \in 1..Len(effects) :
            (effects[k].action.type = "RestoreTo" /\ ~effects[k].ok) =>
                LET i == effects[k].run
                IN /\ dispatchOk = (runs[1].result # "Err")
                   /\ runs[i].result = "Success"
                   /\ Cardinality(CommitsOf(i)) = 1
                   /\ ActionsOf(effects, i) = runs[i].deferred

\* A restoration that fails, after a commit and before an event.
C22_Witness ==
    /\ phase = "dispatched"
    /\ dispatchOk
    /\ runs # <<>>
    /\ runs[1].overlay # EmptyChangeSet
    /\ Len(commitLog) = 1
    /\ Len(effects) = 2
    /\ effects[1].action.type = "RestoreTo"
    /\ ~effects[1].ok
    /\ effects[2].action.type = "DepositEvent"
    /\ events # <<>>
    /\ events[Len(events)] = effects[2].action.event

\* The report of the extrinsic's own execution.
OwnReport == Some(<<runs[1].gas_left, runs[1].gas_limit - runs[1].gas_left>>)

\* C25: within a call or instantiate extrinsic the overlay is committed
\* first, GasUsageReport is then written with the meter's final (gas_left,
\* gas_spent), the deferred actions are replayed after that, and
\* post-dispatch reads the report last: every replayed action of the
\* extrinsic finds the commit done and the report of the extrinsic in
\* storage, and the report is still that one when post-dispatch runs.
C25_CommitReportReplayOrder ==
    (phase = "dispatched" /\ runs # <<>>) =>
        /\ \A k \in 1..Len(effects) :
               effects[k].run = 1 =>
                   /\ \E j \in 1..effects[k].commits : commitLog[j].run = 1
                   /\ effects[k].report = OwnReport
        /\ report = OwnReport

\* What a dispatched runtime call returns.
DispatchResult(call) ==
    CASE call.fn = "other" -> call.ok
      [] call.fn = "update_schedule" -> FALSE
      [] call.fn = "call" -> /\ ~RunMeter(call.gas_limit, call.frame.charge).oog
                             /\ call.frame.kind # "Err"

IsDispatch(e) == e.action.type = "DispatchRuntimeCall"
IsDispatchedEvent(e) == e[1] = "Dispatched"

\* C26: each DispatchRuntimeCall replayed is dispatched under the signed
\* origin of the account that queued it and is followed by exactly one
\* Dispatched event for that account, whose flag tells whether the dispatch
\* returned Ok; a dispatch that fails changes neither the result of the
\* top-level call nor the replay of the actions queued after it.
C26_DispatchedEventPerCall ==
    [][(DispatchStep /\ runs' # <<>>) =>
          LET calls == SelectSeq(effects', IsDispatch)
              deposited == SelectSeq(SubSeq(events', Len(events) + 1, Len(events')),
                                     IsDispatchedEvent)
          IN /\ Len(deposited) = Len(calls)
             /\ \A k \in 1..Len(calls) :
                   /\ calls[k].ok = DispatchResult(calls[k].action.call)
                   /\ deposited[k] = <<"Dispatched", calls[k].action.origin, calls[k].ok>>
             /\ \A i \in 2..Len(runs') : runs'[i].origin = Donor
             /\ dispatchOk' = (runs'[1].result # "Err")
             /\ \A i \in 1..Len(runs') : ActionsOf(effects', i) = runs'[i].deferred]_vars

\* A dispatch that fails, followed by an event queued after it.
C26_Witness ==
    /\ phase = "dispatched"
    /\ dispatchOk
    /\ Len(effects) = 2
    /\ effects[1].action.type = "DispatchRuntimeCall"
    /\ ~effects[1].ok
    /\ effects[2].action.type = "DepositEvent"
    /\ Len(events) = 2
    /\ events[1] = <<"Dispatched", Donor, FALSE>>
    /\ events[2] = effects[2].action.event

\* C28: the weight post-dispatch registers for a call or instantiate is at
\* most the gas limit pre-dispatch admitted for it, and the weight of the
\* block stays within MaximumBlockWeight.
C28_RegisteredWeightWithinLimit ==
    [][(phase = "dispatched" /\ phase' = "done" /\ IsSome(pre)) =>
          /\ weight' - weight <= ext.gas_limit
          /\ weight' <= MaximumBlockWeight]_vars

(* ------------------------------ restore_to ---------------------------- *)

\* A step that calls restore_to; outcome' holds its inputs and result.
RestoreStep == nRestores' = nRestores + 1

\* The donor and the destination as restore_to finds them.
DonorInfo == AliveOf(info, outcome'.origin)
DonorFresh == IsSome(DonorInfo) /\ Unwrap(DonorInfo).last_write # Some(block)
DestHash == TombstoneOf(info, outcome'.dest)
DonorStorage == child[Unwrap(DonorInfo).trie_id]

\* The hashed keys of a delta, and a storage without them.
HashedDelta(delta) == {blake2_256(delta[i]) : i \in 1..Len(delta)}
Projected(trie, delta) ==
    [hk \in HashedKeys |-> IF hk \in HashedDelta(delta) THEN None ELSE trie[hk]]
ProjectedStorage == Projected(DonorStorage, outcome'.delta)

\* The tombstone computed from the projected storage and the declared code
\* hash is the one stored at dest.
Matches ==
    TombstoneNew(ChildRoot(ProjectedStorage), outcome'.code_hash) = Unwrap(DestHash)

StoreUnchanged == bal' = bal /\ info' = info /\ child' = child

\* C11: when the tombstone computed from the donor's storage without the
\* delta keys and the declared code hash differs from the one stored at
\* dest, restore_to fails with the mismatch error and the child storage,
\* the contract infos and the balances are as before the call, whatever
\* the delta (absent and repeated keys included).
C11_MismatchPutsBack ==
    [][(RestoreStep /\ DonorFresh /\ IsSome(DestHash) /\ ~Matches) =>
          /\ ~outcome'.ok
          /\ outcome'.err = TombstoneMismatch
          /\ StoreUnchanged]_vars

C11_Witness ==
    /\ outcome.op = "restore_to"
    /\ outcome.err = TombstoneMismatch
    /\ outcome.delta = <<"k2", "k1">>
    /\ Len(outcome.taken) = 2
    /\ IsSome(child["t1"][blake2_256("k1")])
    /\ IsSome(child["t1"][blake2_256("k2")])

\* C12: on a successful restore_to the donor's ContractInfo is removed, dest
\* is alive with the donor's trie id and the donor's storage_size less the
\* lengths of the values removed for the delta keys, the donor's free
\* balance is added to dest's and becomes zero, and the child storage under
\* the trie id is the donor's storage without the delta keys.
C12_RestoreMovesContract ==
    [][(RestoreStep /\ outcome'.ok) =>
          LET donor == Unwrap(DonorInfo)
              o == outcome'.origin
              d == outcome'.dest
              restored == AliveOf(info', d)
          IN /\ info'[o] = None
             /\ IsSome(restored)
             /\ Unwrap(restored).trie_id = donor.trie_id
             /\ Unwrap(restored).storage_size =
                    donor.storage_size
                    - SizeOfKeys(DonorStorage, HashedDelta(outcome'.delta))
             /\ bal'[d] = bal[d] + bal[o]
             /\ bal'[o] = 0
             /\ child'[donor.trie_id] = ProjectedStorage]_vars

C12_Witness ==
    /\ outcome.op = "restore_to"
    /\ outcome.ok
    /\ outcome.delta = <<"k2">>
    /\ Len(outcome.taken) = 1
    /\ info[outcome.origin] = None
    /\ bal[outcome.origin] = 0
    /\ IsSome(AliveOf(info, outcome.dest))
    /\ IsSome(child[Unwrap(AliveOf(info, outcome.dest)).trie_id][blake2_256("k1")])

\* C13: with a live donor that has not written in the current block and a
\* tombstoned dest, restore_to succeeds exactly when the tombstone of the
\* donor's storage without the delta keys and the declared code hash equals
\* dest's tombstone, which is exactly when that storage and that code hash
\* are those the contract was evicted with; dest then holds the storage it
\* had at eviction, and otherwise the call fails with the mismatch error and
\* the child storage is as before.
C13_TombstoneRoundTrip ==
    [][(RestoreStep /\ DonorFresh /\ IsSome(DestHash)) =>
          LET ev == Unwrap(evicted[outcome'.dest])
          IN /\ outcome'.ok <=> Matches
             /\ Matches <=> (/\ ProjectedStorage = ev.trie
                             /\ outcome'.code_hash = ev.code_hash)
             /\ outcome'.ok =>
                   child'[Unwrap(AliveOf(info', outcome'.dest)).trie_id] = ev.trie
             /\ ~outcome'.ok =>
                   (outcome'.err = TombstoneMismatch /\ child' = child)]_vars

\* A contract evicted by a claim is restored with the storage it had.
C13_Witness ==
    /\ outcome.op = "restore_to"
    /\ outcome.ok
    /\ outcome.dest = Evicted
    /\ outcome.delta = <<"k2">>
    /\ nClaims = 1
    /\ bal[Signer] = 4 + SurchargeReward
    /\ child["t1"] = Unwrap(evicted[Evicted]).trie
    /\ child["t1"] # EmptyTrie

\* C14: when the donor's last_write is the current block, restore_to fails
\* with the error of that check, no key has been taken and the child
\* storage, the contract infos and the balances are as before the call.
C14_DonorWrittenThisBlock ==
    [][(RestoreStep /\ IsSome(DonorInfo) /\ Unwrap(DonorInfo).last_write = Some(block)) =>
          /\ ~outcome'.ok
          /\ outcome'.err = WrittenOrigin
          /\ outcome'.taken = <<>>
          /\ StoreUnchanged]_vars

\* The call would have succeeded but for the write.
C14_Witness ==
    /\ outcome.op = "restore_to"
    /\ outcome.err = WrittenOrigin
    /\ outcome.delta = <<"k2">>
    /\ IsSome(child["t1"][blake2_256("k2")])
    /\ TombstoneOf(info, outcome.dest) =
          Some(TombstoneNew(ChildRoot(Projected(child["t1"], outcome.delta)),
                            outcome.code_hash))

\* The account holds a ContractInfo of the given shape.
HasTag(who, tag) == IsSome(info[who]) /\ Unwrap(info[who]).tag = tag

\* C15: when the donor is not an alive contract (a tombstone, or no
\* ContractInfo) or dest is not a tombstone (alive, or no ContractInfo),
\* restore_to fails in one of the checks made before the donor's storage is
\* touched: no key has been taken and the child storage, the contract infos
\* and the balances are as before the call.
C15_NeedsAliveDonorAndTombstone ==
    [][(RestoreStep /\ (~HasTag(outcome'.origin, "Alive")
                        \/ ~HasTag(outcome'.dest, "Tombstone"))) =>
          /\ ~outcome'.ok
          /\ outcome'.err \in {NotAliveOrigin, WrittenOrigin, NotTombstoneDest}
          /\ ~HasTag(outcome'.origin, "Alive") => outcome'.err = NotAliveOrigin
          /\ outcome'.taken = <<>>
          /\ StoreUnchanged]_vars

C15_Witness ==
    /\ outcome.op = "restore_to"
    /\ outcome.err = NotTombstoneDest
    /\ outcome.origin = Donor
    /\ outcome.dest = Evicted
    /\ IsSome(AliveOf(info, Evicted))
    /\ outcome.delta = <<"k2">>
    /\ IsSome(child["t1"][blake2_256("k2")])

\* C27: on a successful restore_to the restored contract's deduct_block is
\* the current block, its code_hash and rent_allowance are those passed to
\* the call, and its last_write is the donor's when the delta is empty and
\* the current block when it is not.
C27_RestoredFields ==
    [][(RestoreStep /\ outcome'.ok) =>
          LET donor == Unwrap(DonorInfo)
              restored == Unwrap(info'[outcome'.dest])
          IN /\ restored.tag = "Alive"
             /\ restored.deduct_block = block
             /\ restored.code_hash = outcome'.code_hash
             /\ restored.rent_allowance = outcome'.rent_allowance
             /\ outcome'.delta = <<>> => restored.last_write = donor.last_write
             /\ outcome'.delta # <<>> => restored.last_write = Some(block)]_vars

\* A restoration with an empty delta from a donor that wrote in the block
\* before, to a contract evicted with another code than the donor's.
C27_Witness ==
    /\ outcome.op = "restore_to"
    /\ outcome.ok
    /\ outcome.delta = <<>>
    /\ outcome.code_hash = "h2"
    /\ Unwrap(info[outcome.dest]).last_write = Some(FirstBlock - 1)
    /\ Unwrap(info[outcome.dest]).deduct_block = FirstBlock
    /\ Unwrap(info[outcome.dest]).rent_allowance = RestoredAllowance

(* ---------------------------- claim_surcharge ------------------------- *)

\* A step that calls claim_surcharge; outcome' holds its inputs and result.
ClaimStep == nClaims' = nClaims + 1

\* C16: a claim_surcharge whose rent check evicts dest credits
\* SurchargeReward to the rewarded account, and one whose rent check does
\* not evict changes no balance, contract info or storage.
C16_RewardIffEvicted ==
    [][(ClaimStep /\ IsSome(outcome'.rent)) =>
          LET rewarded == Unwrap(outcome'.rewarded)
          IN IF Unwrap(outcome'.rent).outcome = "Evicted"
             THEN bal'[rewarded] = bal[rewarded] + SurchargeReward
             ELSE StoreUnchanged]_vars

\* C17: a signed claim without an auxiliary sender has its rent check made
\* with the handicap SignedClaimHandicap and rewards the signer; an unsigned
\* claim with an auxiliary sender has it made with the handicap 0 and
\* rewards the auxiliary sender; every other claim returns an error before
\* any rent check and leaves balances, contract infos and storage as they
\* were.
C17_ClaimOriginShapes ==
    [][ClaimStep =>
          LET c == outcome'
          IN IF c.origin = "Signed" /\ c.aux_sender = None
             THEN /\ IsSome(c.rent)
                  /\ Unwrap(c.rent).handicap = SignedClaimHandicap
                  /\ Unwrap(c.rent).outcome =
                        TryEvict(Store, c.dest, SignedClaimHandicap).outcome
                  /\ c.rewarded = Some(Signer)
             ELSE IF c.origin = "None" /\ IsSome(c.aux_sender)
             THEN /\ IsSome(c.rent)
                  /\ Unwrap(c.rent).handicap = 0
                  /\ Unwrap(c.rent).outcome = TryEvict(Store, c.dest, 0).outcome
                  /\ c.rewarded = c.aux_sender
             ELSE /\ ~c.ok
                  /\ c.rent = None
                  /\ StoreUnchanged]_vars

\* A signed claim that the handicap keeps from evicting a contract an
\* unsigned claim would evict.
C17_Witness ==
    /\ outcome.op = "claim_surcharge"
    /\ outcome.origin = "Signed"
    /\ outcome.aux_sender = None
    /\ IsSome(outcome.rent)
    /\ Unwrap(outcome.rent).outcome = "Exempted"
    /\ TryEvict(Store, outcome.dest, 0).outcome = "Evicted"

(* ------------------------- pre-dispatch checks ------------------------ *)

\* A step that runs the pre-dispatch checks on a call or instantiate.
PreStep == Between /\ phase' \in {"pre", "rejected"} /\ IsGasCall(ext')

\* The weight left in the block, on the unsigned weight type.
RemainingWeight == IF weight <= MaximumBlockWeight THEN MaximumBlockWeight - weight ELSE 0

C19_WithdrawsFeeKeepAlive ==
    [][PreStep =>
          LET fee == WeightToFee(conv, ext'.gas_limit)
              payable == bal[Signer] >= fee /\ bal[Signer] - fee >= ExistentialDeposit
          IN /\ preResult' = "Ok" =>
                   /\ bal'[Signer] = bal[Signer] - fee
                   /\ bal'[Signer] >= ExistentialDeposit
                   /\ pre' = Some([transactor |-> Signer, imbalance |-> fee])
             /\ preResult' = "Payment" => bal' = bal
             /\ preResult' # "ExhaustsResources" =>
                   (preResult' = "Payment" <=> ~payable)]_vars

\* The signer holds the fee but would not keep the existential deposit.
C19_Witness ==
    /\ phase = "rejected"
    /\ preResult = "Payment"
    /\ ext.gas_limit = 2
    /\ conv = "identity"
    /\ bal[Signer] = 2

\* C29: a pre-dispatch that rejects a call or instantiate, with
\* ExhaustsResources or with Payment, leaves the signer's balance and the
\* stored GasPrice as it found them.
C29_RejectionLeavesStorage ==
    [][(PreStep /\ preResult' # "Ok") =>
          /\ bal' = bal
          /\ gasPrice' = gasPrice]_vars

(* ------------------------------- trie ids ----------------------------- *)

\* C20: no trie id returned by trie_id repeats, for the same or for
\* different accounts, the wraparound of the counter included.
C20_TrieIdsNeverRepeat ==
    \A i, j \in 1..Len(issued) : i # j => issued[i].id # issued[j].id

====
